---------------------------- MODULE Spec2Model ----------------------------
(***************************************************************************)
(* Model of d3st-wasm/src/lib.rs: the binary marshalling boundary of the   *)
(* fuzzy clustering engine.  A call decodes a byte buffer into points,     *)
(* hands them to the engine and packs the engine's clusters into 16-bit    *)
(* words.                                                                  *)
(*                                                                         *)
(* Three specifications share the variables:                               *)
(*   Spec        one FuzzyCluster object receiving cluster calls           *)
(*   DecodeSpec  the two point decoders applied to the same input          *)
(*   PackSpec    pack_clusters applied to a clustering result, and its     *)
(*               count word for a cluster known by its length alone        *)
(***************************************************************************)
EXTENDS Integers, Sequences, FiniteSets

VARIABLES
    inner,        \* FuzzyCluster.inner: the engine parameters
    pc,           \* position inside FuzzyCluster::cluster
    packed_data,  \* argument packed_data: Vec<u8>
    dimensions,   \* argument dimensions: usize
    data,         \* local `data`: the decoded points
    clusters,     \* local `clusters`: the engine's result
    out,          \* the bytes returned by pack_clusters
    outcome,      \* how the call ended: "none", "Ok", "UnexpectedEndOfInput", "panic"
    steps,        \* the steps the current call has run, in order
    cluster_len,  \* PackSpec: cluster.len() of a cluster known by its length alone
    count_word,   \* PackSpec: the word pushed for that cluster's count
    fixed_res,    \* DecodeSpec: result of read_packed_data::<N>
    dyn_res       \* DecodeSpec: result of read_packed_data_dyn

vars == <<inner, pc, packed_data, dimensions, data, clusters, out, outcome,
          steps, cluster_len, count_word, fixed_res, dyn_res>>

---------------------------------------------------------------------------
(* Bounds of the model. *)

\* longest input buffer, in bytes
MaxBytes == 36
\* largest dimension count requested
MaxDim == 9
\* most clusters in a clustering result
MaxClusters == 2
\* most assignments in a generated cluster
MaxAssign == 2
\* largest seed of the engine's results in Spec
MaxSeed == 2
\* most assignments in a cluster known by its length alone
MaxClusterLen == 70000

---------------------------------------------------------------------------
(* Results. *)

Ok(v) == [tag |-> "Ok", val |-> v]
Err(e) == [tag |-> "Err", err |-> e]
\* an integer remainder by zero panics in every build profile
Panic == [tag |-> "Panic"]

UnexpectedEndOfInput == "UnexpectedEndOfInput"

\* std::mem::size_of::<f32>()
ScalarSize == 4

---------------------------------------------------------------------------
(* Decoding. *)

\* mutant: the length check left out
byte_array_unchecked(arr) ==
    Ok([i \in 1..(Len(arr) \div ScalarSize) |->
          SubSeq(arr, (i - 1) * ScalarSize + 1, i * ScalarSize)])

\* A scalar is the f32 whose object representation is four consecutive
\* bytes of the buffer, in memory order: the view covers the same storage.
\* slice::from_raw_parts is given the address of a Vec<u8>, which need not
\* be a multiple of 4 (an empty Vec holds the address 1).  The crate is built
\* for wasm32, where a load of an f32 reads the same four bytes at any
\* address and an empty view is never read: the view below is the one
\* outcome of that build, whatever the address.
byte_array_as_scalar_type(arr) ==
    IF Len(arr) % ScalarSize # 0
    THEN Err(UnexpectedEndOfInput)
    ELSE LET transmuted_len == Len(arr) \div ScalarSize
         IN  Ok([i \in 1..transmuted_len |->
                    SubSeq(arr, (i - 1) * ScalarSize + 1, i * ScalarSize)])

\* mutant: the slice taken from the start of the view, not from i * N
SliceFromStart(s, from, to) == SubSeq(s, 1, to - from)

\* &packed_data[(i * N)..((i + 1) * N)] with i counted from 0
Slice(s, from, to) == SubSeq(s, from + 1, to)

\* mutant: a trailing partial point dropped instead of refused
read_packed_data_floor(N, bytes) ==
    LET r == byte_array_as_scalar_type(bytes)
    IN  IF r.tag = "Err" THEN r
        ELSE Ok([p \in 1..(Len(r.val) \div N) |->
                   [data |-> SubSeq(r.val, (p - 1) * N + 1, p * N)]])

read_packed_data(N, bytes) ==
    LET r == byte_array_as_scalar_type(bytes)
    IN  IF r.tag = "Err" THEN r
        ELSE LET scalars == r.val
             IN  IF Len(scalars) % N # 0
                 THEN Err(UnexpectedEndOfInput)
                 ELSE LET point_count == Len(scalars) \div N
                      IN  Ok([p \in 1..point_count |->
                                [data |-> Slice(scalars, (p - 1) * N, p * N)]])

\* mutant: a trailing partial point dropped instead of refused
read_packed_data_dyn_floor(bytes, dims) ==
    LET r == byte_array_as_scalar_type(bytes)
    IN  IF r.tag = "Err" THEN r
        ELSE IF dims = 0 THEN Panic
        ELSE Ok([p \in 1..(Len(r.val) \div dims) |->
                   [data |-> SubSeq(r.val, (p - 1) * dims + 1, p * dims),
                    dimensions |-> dims]])

read_packed_data_dyn(bytes, dims) ==
    LET r == byte_array_as_scalar_type(bytes)
    IN  IF r.tag = "Err" THEN r
        ELSE LET scalars == r.val
             IN  IF dims = 0
                 THEN Panic
                 ELSE IF Len(scalars) % dims # 0
                 THEN Err(UnexpectedEndOfInput)
                 ELSE LET point_count == Len(scalars) \div dims
                      IN  Ok([p \in 1..point_count |->
                                [data |-> Slice(scalars, (p - 1) * dims, p * dims),
                                 dimensions |-> dims]])

\* the dimension counts with a const implementation: const_dims!(1, ..., 7)
ConstDims == 1..7

\* the match of FuzzyCluster::cluster, up to the `?`
Dispatch(bytes, dims) ==
    IF dims \in ConstDims
    THEN read_packed_data(dims, bytes)
    ELSE read_packed_data_dyn(bytes, dims)


---------------------------------------------------------------------------
(* Encoding. *)

\* the number of values of a u16, the element type of `out`
U16 == 65536

\* x as u16, for an unsigned integer x
AsU16(x) == x % U16

\* fuzzy_dbscan::Category
Categories == <<"Core", "Border", "Noise">>

\* mutant: the codes of Border and Noise exchanged
category_index_swapped(category) ==
    CASE category = "Core" -> 0
      [] category = "Border" -> 2
      [] category = "Noise" -> 1

\* the match on assignment.category
category_index(category) ==
    CASE category = "Core" -> 0
      [] category = "Border" -> 1
      [] category = "Noise" -> 2

\* a << 14 on u16
Shl14(a) == (a * 16384) % U16

RECURSIVE BitOrN(_, _, _)
BitOrN(a, b, n) ==
    IF n = 0 THEN 0
    ELSE (IF a % 2 = 1 \/ b % 2 = 1 THEN 1 ELSE 0)
         + 2 * BitOrN(a \div 2, b \div 2, n - 1)

\* a | b on u16
BitOr(a, b) == BitOrN(a, b, 16)

\* mutant: the product rounded to the nearest integer before the cast
FloatAsU16Nearest(num, den) ==
    IF num <= 0 THEN 0
    ELSE IF (2 * num + den) \div (2 * den) >= 65536 THEN 65535
    ELSE (2 * num + den) \div (2 * den)

\* A label is the fraction <<numerator, denominator>> with a denominator
\* that is a power of two, so the float product label * 65535. is exact.
\* x as u16 of a float x drops the fraction and saturates at the ends.
FloatAsU16(num, den) ==
    IF num <= 0 THEN 0
    ELSE IF num \div den >= U16 THEN U16 - 1
    ELSE num \div den

\* mutant: the index cut to its 14-bit field before the category is added
IndexWordMasked(assignment) ==
    (assignment.index % 16384) + 16384 * category_index(assignment.category)

\* assignment.index as u16 | (category_index << 14)
IndexWord(assignment) ==
    BitOr(AsU16(assignment.index), Shl14(category_index(assignment.category)))

\* (assignment.label * 65535.) as u16
LabelWord(assignment) ==
    FloatAsU16(assignment.label[1] * 65535, assignment.label[2])

\* the inner loop: two pushes per assignment, in assignment order
PackAssignments(cluster) ==
    [j \in 1..(2 * Len(cluster)) |->
        IF j % 2 = 1 THEN IndexWord(cluster[(j + 1) \div 2])
                     ELSE LabelWord(cluster[j \div 2])]

\* cluster.len() as u16
CountWord(len) == AsU16(len)

\* mutant: no count word for a cluster without assignments
RECURSIVE PackWordsSkipEmpty(_)
PackWordsSkipEmpty(cs) ==
    IF cs = <<>> THEN <<>>
    ELSE IF Head(cs) = <<>> THEN PackWordsSkipEmpty(Tail(cs))
    ELSE <<CountWord(Len(Head(cs)))>> \o PackAssignments(Head(cs))
         \o PackWordsSkipEmpty(Tail(cs))

\* the outer loop: the words pushed to `out`
RECURSIVE PackWords(_)
PackWords(cs) ==
    IF cs = <<>> THEN <<>>
    ELSE <<CountWord(Len(Head(cs)))>> \o PackAssignments(Head(cs))
         \o PackWords(Tail(cs))

\* Vec<u16> handed over as Vec<u8> of twice the length: each word is its two
\* bytes in the target's byte order (wasm32: low byte first)
WordsAsBytes(words) ==
    [b \in 1..(2 * Len(words)) |->
        IF b % 2 = 1 THEN words[(b + 1) \div 2] % 256
                     ELSE words[b \div 2] \div 256]

pack_clusters(cs) == WordsAsBytes(PackWords(cs))

---------------------------------------------------------------------------
(* Inputs. *)

\* byte buffers: every length up to MaxBytes, with constant, counting and
\* wrapping contents
ByteSeeds == {0, 250}
ByteSteps == {0, 1}
Buffers ==
    { [i \in 1..n |-> (seed + step * i) % 256] :
        n \in 0..MaxBytes, seed \in ByteSeeds, step \in ByteSteps }

Dims == 0..MaxDim

\* soft labels in [0, 1]
Labels == << <<0, 1>>, <<1, 1>>, <<1, 2>>, <<3, 4>>, <<1, 16384>> >>

\* point indices on both sides of the 14-bit field and of the u16 range
Indices == <<0, 5, 16383, 16384, 40000, 65541>>

\* the assignment at position p of the result numbered seed: the seeds
\* run through every (index, category, label), and neighbours differ
Assign(idx, seed, p) ==
    [index    |-> idx[((seed + p) % Len(idx)) + 1],
     category |-> Categories[(((seed \div Len(idx)) + p) % 3) + 1],
     label    |-> Labels[(((seed \div (3 * Len(idx))) + p) % Len(Labels)) + 1]]

\* cluster sizes of a result
Shapes == UNION { [1..n -> 0..MaxAssign] : n \in 0..MaxClusters }

RECURSIVE Before(_, _)
Before(shape, c) == IF c = 1 THEN 0 ELSE shape[c - 1] + Before(shape, c - 1)

MkResult(shape, idx, seed) ==
    [c \in 1..Len(shape) |->
        [j \in 1..shape[c] |-> Assign(idx, seed, Before(shape, c) + j - 1)]]

\* two assignments on either side of the 14-bit field, and a small result
\* with both ends of the label range
AliasResult ==
    << << [index |-> 16384, category |-> "Core", label |-> <<1, 2>>],
          [index |-> 0, category |-> "Border", label |-> <<1, 2>>] >> >>
SmallResult ==
    << << [index |-> 5, category |-> "Core", label |-> <<1, 1>>],
          [index |-> 3, category |-> "Noise", label |-> <<0, 1>>] >> >>

PackInputs ==
    { MkResult(shape, Indices, seed) :
        shape \in Shapes, seed \in 0..(3 * Len(Indices) * Len(Labels) - 1) }
    \cup {AliasResult, SmallResult}

\* the lengths of a cluster too long to write down
ClusterLens == 0..MaxClusterLen

\* The engine (mod fuzzy_dbscan) is a black box returning clusters of
\* assignments whose indices are positions of the points it was given.
EngineResults(points) ==
    IF Len(points) = 0
    THEN { MkResult(shape, <<0>>, 0) : shape \in {s \in Shapes : \A c \in 1..Len(s) : s[c] = 0} }
    ELSE { MkResult(shape, [i \in 1..Len(points) |-> i - 1], seed) :
             shape \in {s \in Shapes : \A c \in 1..Len(s) : s[c] <= Len(points)},
             seed \in 0..MaxSeed }

EngineParams == { [eps_min |-> 1, eps_max |-> 2, pts_min |-> 1, pts_max |-> 3],
                  [eps_min |-> 0, eps_max |-> 0, pts_min |-> 0, pts_max |-> 0] }

---------------------------------------------------------------------------
(* FuzzyCluster: construction and the cluster call. *)

NoResult == [tag |-> "None"]

Idle ==
    /\ pc = "idle"
    /\ packed_data = <<>>
    /\ dimensions = 0
    /\ data = <<>>
    /\ clusters = <<>>
    /\ out = <<>>
    /\ outcome = "none"
    /\ steps = <<>>

\* FuzzyCluster::new
Init ==
    /\ inner \in EngineParams
    /\ Idle
    /\ cluster_len = 0
    /\ count_word = 0
    /\ fixed_res = NoResult
    /\ dyn_res = NoResult

\* cluster_js is entered with its arguments
Call ==
    /\ pc = "idle"
    /\ \E bytes \in Buffers, dims \in Dims :
          /\ packed_data' = bytes
          /\ dimensions' = dims
    /\ pc' = "decode"
    /\ UNCHANGED <<inner, data, clusters, out, outcome, steps, cluster_len, count_word, fixed_res, dyn_res>>

\* mutant: the error of the decoder noted but the call carried on
DecodeWithoutReturn ==
    /\ pc = "decode"
    /\ LET r == Dispatch(packed_data, dimensions)
       IN  /\ data' = IF r.tag = "Ok" THEN r.val ELSE <<>>
           /\ outcome' = IF r.tag = "Err" THEN r.err ELSE outcome
    /\ pc' = "engine"
    /\ steps' = Append(steps, "decode")
    /\ UNCHANGED <<inner, packed_data, dimensions, clusters, out, cluster_len,
                   count_word, fixed_res, dyn_res>>

\* let data = read_packed_data::<$dim>(&packed_data)?  (or the _dyn arm)
Decode ==
    /\ pc = "decode"
    /\ LET r == Dispatch(packed_data, dimensions)
       IN  CASE r.tag = "Ok" ->
                  /\ data' = r.val
                  /\ pc' = "engine"
                  /\ outcome' = outcome
             [] r.tag = "Err" ->
                  /\ data' = data
                  /\ pc' = "returned"
                  /\ outcome' = r.err
             [] r.tag = "Panic" ->
                  /\ data' = data
                  /\ pc' = "panicked"
                  /\ outcome' = "panic"
    /\ steps' = Append(steps, "decode")
    /\ UNCHANGED <<inner, packed_data, dimensions, clusters, out, cluster_len,
                   count_word, fixed_res, dyn_res>>

\* let clusters = self.inner.cluster(&data)
Engine ==
    /\ pc = "engine"
    /\ clusters' \in EngineResults(data)
    /\ pc' = "encode"
    /\ steps' = Append(steps, "engine")
    /\ UNCHANGED <<inner, packed_data, dimensions, data, out, outcome, cluster_len,
                   count_word, fixed_res, dyn_res>>

\* Ok(pack_clusters(&clusters))
Encode ==
    /\ pc = "encode"
    /\ out' = pack_clusters(clusters)
    /\ outcome' = "Ok"
    /\ pc' = "returned"
    /\ steps' = Append(steps, "encode")
    /\ UNCHANGED <<inner, packed_data, dimensions, data, clusters, cluster_len,
                   count_word, fixed_res, dyn_res>>

\* the caller has taken the result; the call's locals are gone
Return ==
    /\ pc = "returned"
    /\ pc' = "idle"
    /\ packed_data' = <<>>
    /\ dimensions' = 0
    /\ data' = <<>>
    /\ clusters' = <<>>
    /\ out' = <<>>
    /\ outcome' = "none"
    /\ steps' = <<>>
    /\ UNCHANGED <<inner, cluster_len, count_word, fixed_res, dyn_res>>

Next == Call \/ Decode \/ Engine \/ Encode \/ Return

Spec == Init /\ [][Next]_vars

---------------------------------------------------------------------------
(* The two decoders applied to one input. *)

DecodeInit ==
    /\ inner \in EngineParams
    /\ pc = "input"
    /\ packed_data \in Buffers
    /\ dimensions \in Dims
    /\ data = <<>>
    /\ clusters = <<>>
    /\ out = <<>>
    /\ outcome = "none"
    /\ steps = <<>>
    /\ cluster_len = 0
    /\ count_word = 0
    /\ fixed_res = NoResult
    /\ dyn_res = NoResult

\* read_packed_data::<N> exists for the const dimension counts only
ApplyFixed ==
    /\ pc = "input"
    /\ fixed_res = NoResult
    /\ dimensions \in ConstDims
    /\ fixed_res' = read_packed_data(dimensions, packed_data)
    /\ UNCHANGED <<inner, pc, packed_data, dimensions, data, clusters, out,
                   outcome, steps, cluster_len, count_word, dyn_res>>

ApplyDyn ==
    /\ pc = "input"
    /\ dyn_res = NoResult
    /\ dyn_res' = read_packed_data_dyn(packed_data, dimensions)
    /\ UNCHANGED <<inner, pc, packed_data, dimensions, data, clusters, out,
                   outcome, steps, cluster_len, count_word, fixed_res>>

DecodeNext == ApplyFixed \/ ApplyDyn

DecodeSpec == DecodeInit /\ [][DecodeNext]_vars

---------------------------------------------------------------------------
(* pack_clusters applied to one clustering result. *)

\* the input is a clustering result, or the length of one cluster
PackInit ==
    /\ inner \in EngineParams
    /\ \/ pc = "result" /\ clusters \in PackInputs /\ cluster_len = 0
       \/ pc = "cluster" /\ clusters = <<>> /\ cluster_len \in ClusterLens
    /\ packed_data = <<>>
    /\ dimensions = 0
    /\ data = <<>>
    /\ out = <<>>
    /\ outcome = "none"
    /\ steps = <<>>
    /\ count_word = 0
    /\ fixed_res = NoResult
    /\ dyn_res = NoResult

ApplyPack ==
    /\ pc = "result"
    /\ out' = pack_clusters(clusters)
    /\ pc' = "packed"
    /\ UNCHANGED <<inner, packed_data, dimensions, data, clusters, outcome,
                   steps, cluster_len, count_word, fixed_res, dyn_res>>

\* out.push(cluster.len() as u16), for a cluster known by its length
PushCount ==
    /\ pc = "cluster"
    /\ count_word' = CountWord(cluster_len)
    /\ pc' = "counted"
    /\ UNCHANGED <<inner, packed_data, dimensions, data, clusters, out, outcome,
                   steps, cluster_len, fixed_res, dyn_res>>

PackNext == ApplyPack \/ PushCount

PackSpec == PackInit /\ [][PackNext]_vars

---------------------------------------------------------------------------
(* Reading a response, as the documented format says: u16 array of         *)
(* (point count, (index | (category << 14), soft label)+).                 *)

\* the i-th 16-bit word of the response bytes
WordAt(bytes, i) == bytes[2 * i - 1] + 256 * bytes[2 * i]

\* words before the segment of cluster c
RECURSIVE SegmentStart(_, _)
SegmentStart(cs, c) ==
    IF c = 1 THEN 0 ELSE SegmentStart(cs, c - 1) + 1 + 2 * Len(cs[c - 1])

TotalWords(cs) == SegmentStart(cs, Len(cs) + 1)

\* the words of assignment j of cluster c
FirstWord(bytes, cs, c, j) == WordAt(bytes, SegmentStart(cs, c) + 2 * j)
SecondWord(bytes, cs, c, j) == WordAt(bytes, SegmentStart(cs, c) + 2 * j + 1)

\* the clusters read from word `pos` on; not ok when the response ends
\* inside a segment
RECURSIVE ParseClusters(_, _)
ParseClusters(bytes, pos) ==
    LET n == Len(bytes) \div 2
    IN  IF pos > n THEN [ok |-> TRUE, clusters |-> <<>>]
        ELSE LET count == WordAt(bytes, pos)
             IN  IF pos + 2 * count > n THEN [ok |-> FALSE, clusters |-> <<>>]
                 ELSE LET rest == ParseClusters(bytes, pos + 1 + 2 * count)
                          cluster ==
                              [j \in 1..count |->
                                 [index |-> WordAt(bytes, pos + 2 * j - 1) % 16384,
                                  code  |-> WordAt(bytes, pos + 2 * j - 1) \div 16384,
                                  q     |-> WordAt(bytes, pos + 2 * j)]]
                      IN  [ok |-> rest.ok, clusters |-> <<cluster>> \o rest.clusters]

\* 0 = Core, 1 = Border, 2 = Noise
CategoryCode(category) ==
    IF category = "Core" THEN 0 ELSE IF category = "Border" THEN 1 ELSE 2

Abs(x) == IF x < 0 THEN -x ELSE x

---------------------------------------------------------------------------
(* Claims about decoding. *)

Decoded == steps # <<>>
Failed == pc = "returned" /\ outcome = UnexpectedEndOfInput /\ steps = <<"decode">>

\* C1: a call with dimensions = 0 ends with the error UnexpectedEndOfInput for
\* every buffer, also one whose length is a multiple of 4: no panic, no success.
C1_ZeroDimensionsIsMalformed ==
    (Decoded /\ dimensions = 0) => Failed

\* C2: a call with a buffer whose length is not a multiple of 4 ends with the
\* error UnexpectedEndOfInput for every dimension count, 0 included: the length
\* is checked before the dimension count is used.
C2_LengthNotMultipleOf4Fails ==
    (Decoded /\ Len(packed_data) % 4 # 0) => Failed

C2_Witness ==
    /\ Failed
    /\ Len(packed_data) % 4 # 0
    /\ dimensions = 0

\* C3: for a buffer of 4 * k bytes and d >= 1, the call fails with
\* UnexpectedEndOfInput exactly when k is not a multiple of d, on the const
\* path (d in 1..7) and on the dynamic path (d > 7).
C3_ScalarCountMultipleOfDims ==
    (Decoded /\ dimensions >= 1 /\ Len(packed_data) % 4 = 0) =>
        LET k == Len(packed_data) \div 4
        IN  IF k % dimensions # 0
            THEN Failed
            ELSE /\ outcome \in {"none", "Ok"}
                 /\ pc \in {"engine", "encode", "returned"}
                 /\ Len(data) * dimensions = k

C3_Witness ==
    /\ Failed
    /\ dimensions > 7
    /\ Len(packed_data) = 36

\* the scalar at position m (from 0) of the buffer, read off the bytes
ScalarOf(bytes, m) == <<bytes[4 * m + 1], bytes[4 * m + 2], bytes[4 * m + 3], bytes[4 * m + 4]>>

PointsAreSlices(res, bytes, N) ==
    res.tag = "Ok" =>
        /\ Len(res.val) * N = Len(bytes) \div 4
        /\ \A i \in 1..Len(res.val) :
              /\ Len(res.val[i].data) = N
              /\ \A j \in 1..N :
                    res.val[i].data[j] = ScalarOf(bytes, (i - 1) * N + (j - 1))

\* C4: when N >= 1 divides the scalar count k, each decoder returns k / N
\* points, and point i holds the scalars i*N .. (i+1)*N - 1 in order; an empty
\* buffer gives no points.
C4_PointsAreContiguousSlices ==
    (dimensions >= 1 /\ Len(packed_data) % 4 = 0
        /\ (Len(packed_data) \div 4) % dimensions = 0) =>
        /\ fixed_res # NoResult =>
              fixed_res.tag = "Ok" /\ PointsAreSlices(fixed_res, packed_data, dimensions)
        /\ dyn_res # NoResult =>
              dyn_res.tag = "Ok" /\ PointsAreSlices(dyn_res, packed_data, dimensions)

C4_Witness ==
    /\ dimensions = 3
    /\ Len(packed_data) = 36
    /\ packed_data[1] # packed_data[5]
    /\ fixed_res # NoResult /\ Len(fixed_res.val) = 3
    /\ dyn_res # NoResult /\ Len(dyn_res.val) = 3

Coordinates(points) == [i \in 1..Len(points) |-> points[i].data]

\* C5: for d in 1..7, read_packed_data::<d> and read_packed_data_dyn with d
\* end alike on every buffer: the same error, or the same number of points
\* with the same coordinates.
C5_FixedAndDynamicAgree ==
    (dimensions \in 1..7 /\ fixed_res # NoResult /\ dyn_res # NoResult) =>
        /\ fixed_res.tag = dyn_res.tag
        /\ fixed_res.tag = "Err" => fixed_res.err = dyn_res.err
        /\ fixed_res.tag = "Ok" =>
              /\ Len(fixed_res.val) = Len(dyn_res.val)
              /\ Coordinates(fixed_res.val) = Coordinates(dyn_res.val)

C5_Witness ==
    /\ dimensions = 2
    /\ fixed_res # NoResult /\ dyn_res # NoResult
    /\ fixed_res.tag = "Ok"
    /\ Len(fixed_res.val) = 4
    /\ fixed_res.val[1].data # fixed_res.val[2].data

---------------------------------------------------------------------------
(* Claims about encoding. *)

Packed == pc = "packed"

\* the segments follow one another with nothing between or after them, and
\* the two words of assignment j of a cluster sit at its place j
SegmentsInOrder(expected_count(_)) ==
    /\ Len(out) = 2 * TotalWords(clusters)
    /\ \A c \in 1..Len(clusters) :
          /\ WordAt(out, SegmentStart(clusters, c) + 1) = expected_count(Len(clusters[c]))
          /\ \A j \in 1..Len(clusters[c]) :
                FirstWord(out, clusters, c, j) % 16384 = clusters[c][j].index % 16384
    /\ clusters = <<>> => out = <<>>

FullCount(n) == n
CountModU16(n) == n % 65536

\* C6 as claimed: each cluster gives one word equal to its assignment count,
\* then two words per assignment, in order, with nothing between or after; the
\* response holds sum (1 + 2 * count) words; an empty cluster gives the single
\* word 0 and an empty result the empty buffer.
C6_CountWordIsAssignmentCount ==
    /\ Packed => SegmentsInOrder(FullCount)
    /\ pc = "counted" => count_word = FullCount(cluster_len)

\* C6 as amended: the same layout, with the count word equal to the assignment
\* count modulo 65536 (the count itself for a cluster of at most 65535
\* assignments).
C6_CountWordIsCountModU16 ==
    /\ Packed => SegmentsInOrder(CountModU16)
    /\ pc = "counted" => count_word = CountModU16(cluster_len)

C6_Witness ==
    /\ Packed
    /\ Len(clusters) = 2
    /\ Len(clusters[1]) = 0
    /\ Len(clusters[2]) = 2
    /\ Len(out) = 12
    /\ WordAt(out, 1) = 0
    /\ WordAt(out, 2) = 2

InRange(cs) ==
    \A c \in 1..Len(cs) : \A j \in 1..Len(cs[c]) :
        /\ cs[c][j].index \in 0..16383
        /\ 0 <= cs[c][j].label[1]
        /\ cs[c][j].label[1] <= cs[c][j].label[2]

\* C7: for a result with indices in 0..16383 and labels in [0, 1], reading the
\* response by the documented format gives back the clusters in order, each
\* assignment with its index and category, a label within 1/65535 of the
\* original, and never category code 3.
C7_RoundTrip ==
    (Packed /\ InRange(clusters)) =>
        LET response == ParseClusters(out, 1)
            parsed == response.clusters
        IN  /\ response.ok
            /\ Len(parsed) = Len(clusters)
            /\ \A c \in 1..Len(clusters) :
                  /\ Len(parsed[c]) = Len(clusters[c])
                  /\ \A j \in 1..Len(clusters[c]) :
                        LET a == clusters[c][j]
                            r == parsed[c][j]
                        IN  /\ r.index = a.index
                            /\ r.code = CategoryCode(a.category)
                            /\ r.code # 3
                            /\ Abs(r.q * a.label[2] - 65535 * a.label[1]) <= a.label[2]

C7_Witness ==
    /\ Packed
    /\ InRange(clusters)
    /\ Len(clusters) = 2
    /\ Len(clusters[1]) = 2
    /\ \E j \in 1..2 :
          /\ clusters[1][j].category = "Noise"
          /\ clusters[1][j].index = 16383
    /\ \E j \in 1..2 : clusters[1][j].label = <<1, 2>>

LabelsInUnit(cs) ==
    \A c \in 1..Len(cs) : \A j \in 1..Len(cs[c]) :
        0 <= cs[c][j].label[1] /\ cs[c][j].label[1] <= cs[c][j].label[2]

SecondWordsAre(quantized(_, _)) ==
    \A c \in 1..Len(clusters) : \A j \in 1..Len(clusters[c]) :
        /\ SecondWord(out, clusters, c, j)
              = quantized(clusters[c][j].label[1], clusters[c][j].label[2])
        /\ clusters[c][j].label = <<0, 1>> => SecondWord(out, clusters, c, j) = 0
        /\ clusters[c][j].label = <<1, 1>> => SecondWord(out, clusters, c, j) = 65535

\* num/den * 65535 to the nearest integer, halves up
Nearest(num, den) == (2 * 65535 * num + den) \div (2 * den)
\* num/den * 65535 without its fraction
Truncated(num, den) == (65535 * num) \div den

\* C8 as claimed: the second word of an assignment with a label in [0, 1] is
\* label * 65535 rounded to the nearest integer (0.5 gives 32768); 0.0 gives
\* 0x0000 and 1.0 gives 0xFFFF.
C8_LabelWordIsRounded ==
    (Packed /\ LabelsInUnit(clusters)) => SecondWordsAre(Nearest)

\* C8 as amended: the second word is label * 65535 with its fraction dropped
\* (0.5 gives 32767); 0.0 gives 0x0000 and 1.0 gives 0xFFFF.
C8_LabelWordIsTruncated ==
    (Packed /\ LabelsInUnit(clusters)) => SecondWordsAre(Truncated)

C8_Witness ==
    /\ Packed
    /\ Len(clusters) >= 1 /\ Len(clusters[1]) >= 1
    /\ clusters[1][1].label = <<1, 2>>
    /\ SecondWord(out, clusters, 1, 1) = 32767

\* bits 14 and 15 of a | (code << 14), for a below 65536
TopBits(a, code) ==
    LET hi == a \div 16384
    IN  (IF hi % 2 = 1 \/ code % 2 = 1 THEN 1 ELSE 0)
        + 2 * (IF hi \div 2 = 1 \/ code \div 2 = 1 THEN 1 ELSE 0)

\* C10: pack_clusters always gives a response, and for an index of 16384 or
\* more the first word is (index mod 65536) | (code << 14): it reads back as
\* another (index, category) than the one encoded, index 16384 with Core as
\* index 0 with Border.
C10_LargeIndexAliases ==
    Packed =>
        /\ Len(out) = 2 * TotalWords(clusters)
        /\ \A c \in 1..Len(clusters) : \A j \in 1..Len(clusters[c]) :
              LET a == clusters[c][j]
                  code == CategoryCode(a.category)
                  w == FirstWord(out, clusters, c, j)
              IN  a.index >= 16384 =>
                    /\ w = (a.index % 16384) + 16384 * TopBits(a.index % 65536, code)
                    /\ <<w % 16384, w \div 16384>> # <<a.index, code>>
                    /\ (a.index = 16384 /\ code = 0) => (w % 16384 = 0 /\ w \div 16384 = 1)

\* two distinct assignments of one result with the same first word
C10_Witness ==
    /\ Packed
    /\ Len(clusters) = 1 /\ Len(clusters[1]) = 2
    /\ clusters[1][1].index = 16384 /\ clusters[1][1].category = "Core"
    /\ clusters[1][2].index = 0 /\ clusters[1][2].category = "Border"
    /\ FirstWord(out, clusters, 1, 1) = FirstWord(out, clusters, 1, 2)

---------------------------------------------------------------------------
(* Claims about the call. *)

IsPrefix(s, t) == Len(s) <= Len(t) /\ \A i \in 1..Len(s) : s[i] = t[i]

\* C9: a call runs decode, engine, encode in this order, each at most once; the
\* engine runs only on the wholly decoded buffer; a failed decoding returns the
\* error alone, without engine run or response bytes; the engine parameters
\* never change and a returned call leaves nothing behind.
C9_StepsInOrder ==
    [][ /\ IsPrefix(steps', <<"decode", "engine", "encode">>)
        /\ pc' = "engine" =>
              /\ steps' = <<"decode">>
              /\ Len(data') * dimensions' * 4 = Len(packed_data')
        /\ outcome' = UnexpectedEndOfInput =>
              /\ steps' = <<"decode">>
              /\ pc' = "returned"
              /\ clusters' = <<>>
              /\ out' = <<>>
        /\ outcome' = "Ok" => steps' = <<"decode", "engine", "encode">>
        /\ inner' = inner
        /\ pc' = "idle" =>
              /\ packed_data' = <<>> /\ dimensions' = 0 /\ data' = <<>>
              /\ clusters' = <<>> /\ out' = <<>> /\ outcome' = "none"
              /\ steps' = <<>>
      ]_vars

C9_Witness ==
    /\ pc = "returned"
    /\ outcome = UnexpectedEndOfInput
    /\ steps = <<"decode">>
    /\ Len(packed_data) = 8
    /\ dimensions = 3
    /\ out = <<>>

=============================================================================
